---------------------------- MODULE Spec2Model ----------------------------
(***************************************************************************)
(* The ASDF pixel sort engine: PixelSorter of utils/pixelSort.js and the   *)
(* second PixelSorter kept beside ImageProcessor (imageProcessor.js).      *)
(* Both classes hold the same convert/sort/scan methods; they differ in    *)
(* sortImage (thresholds as fields set by setThresholds, or as an argument *)
(* merged with ||) and in what sortImage returns.                          *)
(*                                                                         *)
(* A pixel is a record [r, g, b, a]; a flat RGBA byte buffer of 4n bytes   *)
(* is a sequence of n pixels.  JavaScript indices are 0-based, sequences   *)
(* are 1-based: index i of the code is element i + 1 here.                 *)
(***************************************************************************)
EXTENDS Integers, Sequences, FiniteSets, Bags, TLC

VARIABLES
  engine,       \* "exported" (pixelSort.js) or "processor" (imageProcessor.js)
  whiteValue,   \* this.whiteValue
  blackValue,   \* this.blackValue
  brightValue,  \* this.brightValue
  darkValue,    \* this.darkValue
  pc,           \* position inside sortImage
  imageData,    \* sortImage's first argument
  mode,         \* sortImage's mode argument
  thresholds,   \* sortImage's thresholds argument (processor engine)
  rgbPixels,    \* the Int32Array of packed colours being sorted
  column,       \* loop variable of the column phase
  row,          \* loop variable of the row phase
  x,            \* sortRow's x
  xEnd,         \* sortRow's xEnd
  y,            \* sortColumn's y
  yEnd,         \* sortColumn's yEnd
  result,       \* what sortImage returned
  lastScan,     \* history: the last iteration of a sortRow / sortColumn loop
  runPixels,    \* history: pixels covered by the runs detected in this call
  saved,        \* history: one earlier completed invocation
  progressCallback, \* sortImage was given a progressCallback
  sink,         \* the calls sortImage made to its progressCallback
  caller,       \* position inside ImageProcessor.processImage, or "direct"
                \* while outside code holds a packed buffer of its own
  outerCallback,    \* processImage was given a progressCallback
  outerSink,    \* the calls processImage's progressCallback received
  phaseBuffer,  \* history: the packed buffer when the column loop ended
  heldCalls     \* history: the scanline methods called on a held buffer

vars == <<engine, whiteValue, blackValue, brightValue, darkValue, pc,
          imageData, mode, thresholds, rgbPixels, column, row, x, xEnd,
          y, yEnd, result, lastScan, runPixels, saved, progressCallback,
          sink, caller, outerCallback, outerSink, phaseBuffer, heldCalls>>

\* The state of a processImage call.
processVars == <<caller, outerCallback, outerSink>>

---------------------------------------------------------------------------
(* Bounds of the model.                                                    *)

MaxWidth == 4

MaxHeight == 3

MaxPixels == 6

\* Length of the long scanlines of the two-colour images, which add runs of
\* more than two sorted pixels.
MaxLine == 4

\* Largest width, height and buffer length (in pixels) of a malformed input.
MaxBadWidth == 3

MaxBadHeight == 2

MaxBadLength == 4

---------------------------------------------------------------------------
(* Constructor defaults.                                                   *)

DefaultWhiteValue == -12345678

DefaultBlackValue == -3456789

DefaultBrightValue == 127

DefaultDarkValue == 223

---------------------------------------------------------------------------
(* Input values.                                                           *)

PixA == [r |-> 210, g |-> 10, b |-> 10, a |-> 255]

PixB == [r |-> 10, g |-> 220, b |-> 30, a |-> 128]

PixC == [r |-> 100, g |-> 100, b |-> 100, a |-> 0]

Palette == {PixA, PixB, PixC}

Modes == 0 .. 3

Dims == {d \in (1 .. MaxWidth) \X (1 .. MaxHeight) : d[1] * d[2] <= MaxPixels}

ImagesOver(palette, dims) ==
  UNION {{[width |-> d[1], height |-> d[2], data |-> s] :
            s \in [1 .. d[1] * d[2] -> palette]} : d \in dims}

\* Two rows or two columns of MaxLine pixels.
LongDims == {<<MaxLine, 2>>, <<2, MaxLine>>}

Images ==
  ImagesOver(Palette, Dims) \cup ImagesOver({PixA, PixB}, LongDims \ Dims)

NoImage == [width |-> 0, height |-> 0, data |-> <<>>]

NoResult == [returned |-> FALSE, width |-> 0, height |-> 0, data |-> <<>>]

NoThresholds == [white |-> 0, black |-> 0, bright |-> 0, dark |-> 0]

NoScan == [kind |-> "none", line |-> 0, from |-> 0, start |-> 0, end |-> 0,
           sorted |-> FALSE, before |-> <<>>, reads |-> {}, writes |-> {}]

NoSave == [set |-> FALSE, imageData |-> NoImage, mode |-> 0,
           thresholds |-> NoThresholds, bright |-> 0, result |-> NoResult,
           runPixels |-> 0, calls |-> <<>>, buffer |-> <<>>]

---------------------------------------------------------------------------
(* Packing and unpacking.                                                  *)

\* pixels[i * 4 + k] of a Uint8ClampedArray; a read past the end is
\* undefined, which <<, | turn into 0.
ReadChannel(pixels, i, c) ==
  IF i + 1 \in DOMAIN pixels THEN pixels[i + 1][c] ELSE 0

\* (r << 16) | (g << 8) | b | 0xFF000000 as a signed 32-bit integer: the
\* channels are bytes, so the fields do not overlap and | adds them; the
\* top byte 0xFF makes the int32 value negative.
\* Mutant: red and blue change places in the packed colour.
PackRGB_BlueFirst(r, g, b) == b * 65536 + g * 256 + r - 16777216

PackRGB(r, g, b) == r * 65536 + g * 256 + b - 16777216

convertToRGB(pixels, width, height) ==
  [i \in 1 .. width * height |->
     PackRGB(ReadChannel(pixels, i - 1, "r"),
             ReadChannel(pixels, i - 1, "g"),
             ReadChannel(pixels, i - 1, "b"))]

\* Mutant: the shift without the mask, which keeps the higher bytes.
ShiftMask_Unmasked(color, n) == color \div n

\* (color >> n) & 0xFF: an arithmetic shift is a floor division.
ShiftMask(color, n) == (color \div n) % 256

\* Mutant: the alpha is taken from the packed colour's top byte.
convertToRGBA_AlphaFromColor(pixelsRGB, originalPixels) ==
  [i \in 1 .. Len(originalPixels) |->
     IF i <= Len(pixelsRGB)
       THEN [r |-> ShiftMask(pixelsRGB[i], 65536),
             g |-> ShiftMask(pixelsRGB[i], 256),
             b |-> ShiftMask(pixelsRGB[i], 1),
             a |-> ShiftMask(pixelsRGB[i], 16777216)]
       ELSE [r |-> 0, g |-> 0, b |-> 0, a |-> 0]]

convertToRGBA(pixelsRGB, originalPixels) ==
  [i \in 1 .. Len(originalPixels) |->
     IF i <= Len(pixelsRGB)
       THEN [r |-> ShiftMask(pixelsRGB[i], 65536),
             g |-> ShiftMask(pixelsRGB[i], 256),
             b |-> ShiftMask(pixelsRGB[i], 1),
             a |-> originalPixels[i].a]
       ELSE [r |-> 0, g |-> 0, b |-> 0, a |-> 0]]

\* Math.round(0.299 r + 0.587 g + 0.114 b) in integer arithmetic.  The
\* double computation agrees with it on every colour of Palette (and on
\* all but 3464 of the 2^24 colours, the exact .5 ties that the double sum
\* leaves just below the tie).
getBrightness(color) ==
  LET r == ShiftMask(color, 65536)
      g == ShiftMask(color, 256)
      b == ShiftMask(color, 1)
  IN (299 * r + 587 * g + 114 * b + 500) \div 1000

---------------------------------------------------------------------------
(* The scans.  pixels[i] of the code is pixels[i + 1] here.                *)

\* Mutant: a pixel equal to the threshold is skipped too.
getFirstNoneWhiteX_Inclusive(pixels, width, x0, y0) ==
  LET RECURSIVE scan(_)
      scan(xx) == IF pixels[xx + y0 * width + 1] <= whiteValue
                    THEN IF xx + 1 >= width THEN -1 ELSE scan(xx + 1)
                    ELSE xx
  IN scan(x0)

getFirstNoneWhiteX(pixels, width, x0, y0) ==
  LET RECURSIVE scan(_)
      scan(xx) == IF pixels[xx + y0 * width + 1] < whiteValue
                    THEN IF xx + 1 >= width THEN -1 ELSE scan(xx + 1)
                    ELSE xx
  IN scan(x0)

getNextWhiteX(pixels, width, x0, y0) ==
  LET RECURSIVE scan(_)
      scan(xx) == IF pixels[xx + y0 * width + 1] > whiteValue
                    THEN IF xx + 1 >= width THEN width - 1 ELSE scan(xx + 1)
                    ELSE xx - 1
  IN scan(x0 + 1)

getFirstNoneBlackX(pixels, width, x0, y0) ==
  LET RECURSIVE scan(_)
      scan(xx) == IF pixels[xx + y0 * width + 1] > blackValue
                    THEN IF xx + 1 >= width THEN -1 ELSE scan(xx + 1)
                    ELSE xx
  IN scan(x0)

getNextBlackX(pixels, width, x0, y0) ==
  LET RECURSIVE scan(_)
      scan(xx) == IF pixels[xx + y0 * width + 1] < blackValue
                    THEN IF xx + 1 >= width THEN width - 1 ELSE scan(xx + 1)
                    ELSE xx - 1
  IN scan(x0 + 1)

getFirstNoneBrightX(pixels, width, x0, y0) ==
  LET RECURSIVE scan(_)
      scan(xx) == IF getBrightness(pixels[xx + y0 * width + 1]) < brightValue
                    THEN IF xx + 1 >= width THEN -1 ELSE scan(xx + 1)
                    ELSE xx
  IN scan(x0)

getNextBrightX(pixels, width, x0, y0) ==
  LET RECURSIVE scan(_)
      scan(xx) == IF getBrightness(pixels[xx + y0 * width + 1]) > brightValue
                    THEN IF xx + 1 >= width THEN width - 1 ELSE scan(xx + 1)
                    ELSE xx - 1
  IN scan(x0 + 1)

getFirstNoneDarkX(pixels, width, x0, y0) ==
  LET RECURSIVE scan(_)
      scan(xx) == IF getBrightness(pixels[xx + y0 * width + 1]) > darkValue
                    THEN IF xx + 1 >= width THEN -1 ELSE scan(xx + 1)
                    ELSE xx
  IN scan(x0)

getNextDarkX(pixels, width, x0, y0) ==
  LET RECURSIVE scan(_)
      scan(xx) == IF getBrightness(pixels[xx + y0 * width + 1]) < darkValue
                    THEN IF xx + 1 >= width THEN width - 1 ELSE scan(xx + 1)
                    ELSE xx - 1
  IN scan(x0 + 1)

getFirstNoneWhiteY(pixels, width, height, x0, y0) ==
  LET RECURSIVE scan(_)
      scan(yy) == IF pixels[x0 + yy * width + 1] < whiteValue
                    THEN IF yy + 1 >= height THEN -1 ELSE scan(yy + 1)
                    ELSE yy
  IN IF y0 < height THEN scan(y0) ELSE y0

getNextWhiteY(pixels, width, height, x0, y0) ==
  LET RECURSIVE scan(_)
      scan(yy) == IF pixels[x0 + yy * width + 1] > whiteValue
                    THEN IF yy + 1 >= height THEN height - 1 ELSE scan(yy + 1)
                    ELSE yy - 1
  IN IF y0 + 1 < height THEN scan(y0 + 1) ELSE y0

getFirstNoneBlackY(pixels, width, height, x0, y0) ==
  LET RECURSIVE scan(_)
      scan(yy) == IF pixels[x0 + yy * width + 1] > blackValue
                    THEN IF yy + 1 >= height THEN -1 ELSE scan(yy + 1)
                    ELSE yy
  IN IF y0 < height THEN scan(y0) ELSE y0

\* Mutant: a pixel equal to the threshold continues the run.
getNextBlackY_Inclusive(pixels, width, height, x0, y0) ==
  LET RECURSIVE scan(_)
      scan(yy) == IF pixels[x0 + yy * width + 1] <= blackValue
                    THEN IF yy + 1 >= height THEN height - 1 ELSE scan(yy + 1)
                    ELSE yy - 1
  IN IF y0 + 1 < height THEN scan(y0 + 1) ELSE y0

getNextBlackY(pixels, width, height, x0, y0) ==
  LET RECURSIVE scan(_)
      scan(yy) == IF pixels[x0 + yy * width + 1] < blackValue
                    THEN IF yy + 1 >= height THEN height - 1 ELSE scan(yy + 1)
                    ELSE yy - 1
  IN IF y0 + 1 < height THEN scan(y0 + 1) ELSE y0

\* Mutant: the comparison of the Dark scan, which skips the bright pixels.
getFirstNoneBrightY_Reversed(pixels, width, height, x0, y0) ==
  LET RECURSIVE scan(_)
      scan(yy) == IF getBrightness(pixels[x0 + yy * width + 1]) > brightValue
                    THEN IF yy + 1 >= height THEN -1 ELSE scan(yy + 1)
                    ELSE yy
  IN IF y0 < height THEN scan(y0) ELSE y0

getFirstNoneBrightY(pixels, width, height, x0, y0) ==
  LET RECURSIVE scan(_)
      scan(yy) == IF getBrightness(pixels[x0 + yy * width + 1]) < brightValue
                    THEN IF yy + 1 >= height THEN -1 ELSE scan(yy + 1)
                    ELSE yy
  IN IF y0 < height THEN scan(y0) ELSE y0

getNextBrightY(pixels, width, height, x0, y0) ==
  LET RECURSIVE scan(_)
      scan(yy) == IF getBrightness(pixels[x0 + yy * width + 1]) > brightValue
                    THEN IF yy + 1 >= height THEN height - 1 ELSE scan(yy + 1)
                    ELSE yy - 1
  IN IF y0 + 1 < height THEN scan(y0 + 1) ELSE y0

getFirstNoneDarkY(pixels, width, height, x0, y0) ==
  LET RECURSIVE scan(_)
      scan(yy) == IF getBrightness(pixels[x0 + yy * width + 1]) > darkValue
                    THEN IF yy + 1 >= height THEN -1 ELSE scan(yy + 1)
                    ELSE yy
  IN IF y0 < height THEN scan(y0) ELSE y0

getNextDarkY(pixels, width, height, x0, y0) ==
  LET RECURSIVE scan(_)
      scan(yy) == IF getBrightness(pixels[x0 + yy * width + 1]) < darkValue
                    THEN IF yy + 1 >= height THEN height - 1 ELSE scan(yy + 1)
                    ELSE yy - 1
  IN IF y0 + 1 < height THEN scan(y0 + 1) ELSE y0

---------------------------------------------------------------------------
(* The in-run sort.                                                        *)

\* Mutant: the length counts the run's last pixel too.
sortingLength_Inclusive(start, end) == end - start + 1

\* const sortingLength = xEnd - x (and yEnd - y)
sortingLength(start, end) == end - start

\* Mutant: the gather starts one position late.
Gather_OneLate(pixels, first, stride, n) ==
  [i \in 1 .. n |-> pixels[first + i * stride + 1]]

\* unsorted[i] = pixels[first + i * stride], i < n: stride is 1 along a
\* row and width along a column.
Gather(pixels, first, stride, n) ==
  [i \in 1 .. n |-> pixels[first + (i - 1) * stride + 1]]

\* Mutant: ascending order of luminance instead of the packed value.
RECURSIVE SortAscending_ByBrightness(_)
SortAscending_ByBrightness(s) ==
  IF s = <<>> THEN <<>>
  ELSE LET rest == SortAscending_ByBrightness(SubSeq(s, 1, Len(s) - 1))
           v == s[Len(s)]
           k == Cardinality({i \in 1 .. Len(rest) :
                               getBrightness(rest[i]) <= getBrightness(v)})
       IN SubSeq(rest, 1, k) \o <<v>> \o SubSeq(rest, k + 1, Len(rest))

\* unsorted.sort((a, b) => a - b): ascending numeric order.
RECURSIVE SortAscending(_)
SortAscending(s) ==
  IF s = <<>> THEN <<>>
  ELSE LET rest == SortAscending(SubSeq(s, 1, Len(s) - 1))
           v == s[Len(s)]
           k == Cardinality({i \in 1 .. Len(rest) : rest[i] <= v})
       IN SubSeq(rest, 1, k) \o <<v>> \o SubSeq(rest, k + 1, Len(rest))

\* Mutant: the write-back starts one position late.
ScatterShifted(pixels, first, stride, sorted) ==
  [k \in 1 .. Len(pixels) |->
     LET o == k - 1 - first - stride
     IN IF o >= 0 /\ o % stride = 0 /\ o \div stride < Len(sorted)
          THEN sorted[o \div stride + 1]
          ELSE pixels[k]]

\* pixels[first + i * stride] = sorted[i], i < sortingLength
Scatter(pixels, first, stride, sorted) ==
  [k \in 1 .. Len(pixels) |->
     LET o == k - 1 - first
     IN IF o >= 0 /\ o % stride = 0 /\ o \div stride < Len(sorted)
          THEN sorted[o \div stride + 1]
          ELSE pixels[k]]

\* if (sortingLength > 1) { gather; sort; write back }
SortRun(pixels, first, stride, n) ==
  IF n > 1
    THEN Scatter(pixels, first, stride,
                 SortAscending(Gather(pixels, first, stride, n)))
    ELSE pixels

\* Mutant: a switch that finds the run in the row below the one it sorts.
SwitchX_RowBelow(pixels, width, x0, xEnd0, row0, m) ==
  CASE m = 0 ->
         LET x1 == getFirstNoneWhiteX(pixels, width, x0, row0 + 1)
         IN <<x1, getNextWhiteX(pixels, width, x1, row0 + 1)>>
    [] m = 1 ->
         LET x1 == getFirstNoneBlackX(pixels, width, x0, row0 + 1)
         IN <<x1, getNextBlackX(pixels, width, x1, row0 + 1)>>
    [] m = 2 ->
         LET x1 == getFirstNoneBrightX(pixels, width, x0, row0 + 1)
         IN <<x1, getNextBrightX(pixels, width, x1, row0 + 1)>>
    [] m = 3 ->
         LET x1 == getFirstNoneDarkX(pixels, width, x0, row0 + 1)
         IN <<x1, getNextDarkX(pixels, width, x1, row0 + 1)>>
    [] OTHER -> <<x0, xEnd0>>

\* The switch of sortRow: <<x, xEnd>> after it.  No case matches a mode
\* outside 0..3, and both are left as they were.
SwitchX(pixels, width, x0, xEnd0, row0, m) ==
  CASE m = 0 ->
         LET x1 == getFirstNoneWhiteX(pixels, width, x0, row0)
         IN <<x1, getNextWhiteX(pixels, width, x1, row0)>>
    [] m = 1 ->
         LET x1 == getFirstNoneBlackX(pixels, width, x0, row0)
         IN <<x1, getNextBlackX(pixels, width, x1, row0)>>
    [] m = 2 ->
         LET x1 == getFirstNoneBrightX(pixels, width, x0, row0)
         IN <<x1, getNextBrightX(pixels, width, x1, row0)>>
    [] m = 3 ->
         LET x1 == getFirstNoneDarkX(pixels, width, x0, row0)
         IN <<x1, getNextDarkX(pixels, width, x1, row0)>>
    [] OTHER -> <<x0, xEnd0>>

\* Mutant: a switch in which no case matches.
SwitchY_NoCase(pixels, width, height, column0, y0, yEnd0, m) == <<y0, yEnd0>>

\* Mutant: a switch with a default clause, which scans as case 0 does.
SwitchY_DefaultWhite(pixels, width, height, column0, y0, yEnd0, m) ==
  CASE m = 1 ->
         LET y1 == getFirstNoneBlackY(pixels, width, height, column0, y0)
         IN <<y1, getNextBlackY(pixels, width, height, column0, y1)>>
    [] m = 2 ->
         LET y1 == getFirstNoneBrightY(pixels, width, height, column0, y0)
         IN <<y1, getNextBrightY(pixels, width, height, column0, y1)>>
    [] m = 3 ->
         LET y1 == getFirstNoneDarkY(pixels, width, height, column0, y0)
         IN <<y1, getNextDarkY(pixels, width, height, column0, y1)>>
    [] OTHER ->
         LET y1 == getFirstNoneWhiteY(pixels, width, height, column0, y0)
         IN <<y1, getNextWhiteY(pixels, width, height, column0, y1)>>

\* The switch of sortColumn: <<y, yEnd>> after it.
SwitchY(pixels, width, height, column0, y0, yEnd0, m) ==
  CASE m = 0 ->
         LET y1 == getFirstNoneWhiteY(pixels, width, height, column0, y0)
         IN <<y1, getNextWhiteY(pixels, width, height, column0, y1)>>
    [] m = 1 ->
         LET y1 == getFirstNoneBlackY(pixels, width, height, column0, y0)
         IN <<y1, getNextBlackY(pixels, width, height, column0, y1)>>
    [] m = 2 ->
         LET y1 == getFirstNoneBrightY(pixels, width, height, column0, y0)
         IN <<y1, getNextBrightY(pixels, width, height, column0, y1)>>
    [] m = 3 ->
         LET y1 == getFirstNoneDarkY(pixels, width, height, column0, y0)
         IN <<y1, getNextDarkY(pixels, width, height, column0, y1)>>
    [] OTHER -> <<y0, yEnd0>>

---------------------------------------------------------------------------
(* Threshold settings offered to the sorter.                               *)

DefaultThresholds ==
  [white |-> DefaultWhiteValue, black |-> DefaultBlackValue,
   bright |-> DefaultBrightValue, dark |-> DefaultDarkValue]

\* Each threshold equal to a value that occurs in the image: the lowest
\* packed value for white, the highest for black, the lowest luminance for
\* bright and the highest for dark.
TightThresholds ==
  [white |-> PackRGB(PixB.r, PixB.g, PixB.b),
   black |-> PackRGB(PixA.r, PixA.g, PixA.b),
   bright |-> getBrightness(PackRGB(PixA.r, PixA.g, PixA.b)),
   dark |-> getBrightness(PackRGB(PixB.r, PixB.g, PixB.b))]

ZeroThresholds == [white |-> 0, black |-> 0, bright |-> 0, dark |-> 0]

ThresholdConfigs == {DefaultThresholds, TightThresholds, ZeroThresholds}

\* thresholds = {}, the default of the parameter: no field at all.
EmptyThresholds == <<>>

\* A thresholds object that carries the bright field only.
BrightOnlyThresholds == [bright |-> TightThresholds.bright]

\* The thresholds objects handed to the sorter of imageProcessor.js.
ProcessorThresholdConfigs ==
  ThresholdConfigs \cup {EmptyThresholds, BrightOnlyThresholds}

---------------------------------------------------------------------------
(* Progress notifications.  A percentage is kept as the exact fraction     *)
(* num / den, den > 0, of the value the code computes in floating point.   *)

Pct(n, d) == [num |-> n, den |-> d]

Whole(n) == Pct(n, 1)

\* 30 + (progress * 0.6), the rescaling done by processImage's callback.
Rescale(p) == Pct(150 * p.den + 3 * p.num, 5 * p.den)

\* if (progressCallback) progressCallback(p, text): the calls received.
Received(calls, cb, p, text) ==
  IF cb THEN Append(calls, [percent |-> p, text |-> text]) ELSE calls

\* A call of sortImage's progressCallback where sortImage makes one.  Inside
\* processImage that callback passes 30 + 0.6 p on to processImage's own.
Notify(p, text) ==
  /\ sink' = Received(sink, progressCallback, p, text)
  /\ outerSink' = Received(outerSink,
                           progressCallback /\ caller = "sorting"
                             /\ outerCallback,
                           Rescale(p), text)

Quiet == UNCHANGED <<sink, outerSink>>

\* if (progressCallback && column % 10 === 0)
\*   progressCallback((column / width) * 50, 'Sorting columns...')
NotifyColumn ==
  IF column % 10 = 0
    THEN Notify(Pct(column * 50, imageData.width), "Sorting columns...")
    ELSE Quiet

\* Mutant: the row notifications lose their offset of 50.
NotifyRow_NoOffset ==
  IF row % 10 = 0
    THEN Notify(Pct(row * 50, imageData.height), "Sorting rows...")
    ELSE Quiet

\* if (progressCallback && row % 10 === 0)
\*   progressCallback(50 + (row / height) * 50, 'Sorting rows...')
NotifyRow ==
  IF row % 10 = 0
    THEN Notify(Pct(50 * imageData.height + row * 50, imageData.height),
                "Sorting rows...")
    ELSE Quiet

---------------------------------------------------------------------------
(* The buffer indices (0-based) that one pass of a scan loop touches.      *)

\* getFirstNone*X called with x0 and returning r: the loop reads
\* pixels[x + y * width] at x0 and at every x it steps to, up to the
\* position it returns, or up to the row's last position when it returns -1.
ReadsFirstNoneX(width, x0, y0, r) ==
  {x0 + y0 * width}
    \cup {xx + y0 * width : xx \in x0 .. (IF r < 0 THEN width - 1 ELSE r)}

\* getNext*X called with x0 and returning r: x++ and an unguarded read of
\* pixels[x + y * width], then one read per step up to the position that
\* fails the test (r + 1) or the row's last position.
ReadsNextX(width, x0, y0, r) ==
  {x0 + 1 + y0 * width}
    \cup {xx + y0 * width :
            xx \in x0 + 1 .. (IF r + 1 < width THEN r + 1 ELSE width - 1)}

\* getFirstNone*Y: the same reads down a column, inside if (y < height).
ReadsFirstNoneY(width, height, x0, y0, r) ==
  IF y0 < height
    THEN {x0 + yy * width : yy \in y0 .. (IF r < 0 THEN height - 1 ELSE r)}
    ELSE {}

\* getNext*Y: y++ and, inside if (y < height), the reads down the column.
ReadsNextY(width, height, x0, y0, r) ==
  IF y0 + 1 < height
    THEN {x0 + yy * width :
            yy \in y0 + 1 .. (IF r + 1 < height THEN r + 1 ELSE height - 1)}
    ELSE {}

\* The indices first + i * stride, i < n, that the gather reads and the
\* write-back writes when sortingLength > 1.
Touched(first, stride, n) ==
  IF n > 1 THEN {first + i * stride : i \in 0 .. n - 1} ELSE {}

---------------------------------------------------------------------------
(* The state machine.                                                      *)

InitWith(e) ==
  /\ engine = e
  /\ whiteValue = DefaultWhiteValue
  /\ blackValue = DefaultBlackValue
  /\ brightValue = DefaultBrightValue
  /\ darkValue = DefaultDarkValue
  /\ pc = "idle"
  /\ imageData = NoImage
  /\ mode = 0
  /\ thresholds = NoThresholds
  /\ rgbPixels = <<>>
  /\ column = 0
  /\ row = 0
  /\ x = 0
  /\ xEnd = 0
  /\ y = 0
  /\ yEnd = 0
  /\ result = NoResult
  /\ lastScan = NoScan
  /\ runPixels = 0
  /\ saved = NoSave
  /\ progressCallback = FALSE
  /\ sink = <<>>
  /\ caller = "none"
  /\ outerCallback = FALSE
  /\ outerSink = <<>>
  /\ phaseBuffer = <<>>
  /\ heldCalls = <<>>

Init == InitWith("exported")

InitProcessor == InitWith("processor")

InitEither == \E e \in {"exported", "processor"} : InitWith(e)

\* setThresholds(whiteValue, blackValue, brightValue, darkValue); sortImage
\* is async but never awaits, so no call lands inside a running sortImage.
setThresholds(t) ==
  /\ engine = "exported"
  /\ pc = "idle"
  /\ whiteValue' = t.white
  /\ blackValue' = t.black
  /\ brightValue' = t.bright
  /\ darkValue' = t.dark
  /\ UNCHANGED <<engine, pc, imageData, mode, thresholds, rgbPixels, column,
                 row, x, xEnd, y, yEnd, result, lastScan, runPixels, saved>>
  /\ UNCHANGED <<progressCallback, sink, phaseBuffer, heldCalls>>
  /\ UNCHANGED processVars

\* sortImage up to the column loop: destructure, copy, convertToRGB,
\* progressCallback(0, 'Sorting columns...').  new Int32Array(n) throws a
\* RangeError for n < 0.
Begin(img, m, cb) ==
  /\ pc = "idle"
  /\ imageData' = img
  /\ mode' = m
  /\ progressCallback' = cb
  /\ phaseBuffer' = <<>>
  /\ heldCalls' = <<>>
  /\ IF img.width * img.height < 0
       THEN /\ pc' = "threw"
            /\ rgbPixels' = <<>>
            /\ sink' = <<>>
       ELSE /\ pc' = "columns"
            /\ rgbPixels' = convertToRGB(img.data, img.width, img.height)
            /\ sink' = Received(<<>>, cb, Whole(0), "Sorting columns...")
  /\ column' = 0
  /\ row' = 0
  /\ x' = 0
  /\ xEnd' = 0
  /\ y' = 0
  /\ yEnd' = 0
  /\ result' = NoResult
  /\ lastScan' = NoScan
  /\ runPixels' = 0

\* PixelSorter.sortImage(imageData, mode, progressCallback) of pixelSort.js
sortImage(img, m, cb) ==
  /\ engine = "exported"
  /\ Begin(img, m, cb)
  /\ thresholds' = NoThresholds
  /\ UNCHANGED <<engine, whiteValue, blackValue, brightValue, darkValue, saved>>
  /\ UNCHANGED processVars

\* Mutant: a ?? b, which keeps a 0.
OrElse_Nullish(a, b) == a

\* a || b on numbers: 0 is falsy (a missing field, undefined, is too).
OrElse(a, b) == IF a # 0 THEN a ELSE b

\* thresholds.f || current: a field the object lacks reads as undefined.
Merged(t, f, current) ==
  IF f \in DOMAIN t THEN OrElse(t[f], current) ELSE current

\* PixelSorter.sortImage(pixelData, mode, thresholds, progressCallback) of
\* imageProcessor.js; its caller is processImage, whose variables are set
\* by the action that makes the call.
sortImageWithThresholds(img, m, t, cb) ==
  /\ engine = "processor"
  /\ Begin(img, m, cb)
  /\ thresholds' = t
  /\ whiteValue' = Merged(t, "white", whiteValue)
  /\ blackValue' = Merged(t, "black", blackValue)
  /\ brightValue' = Merged(t, "bright", brightValue)
  /\ darkValue' = Merged(t, "dark", darkValue)
  /\ UNCHANGED <<engine, saved>>

\* Mutant: the column loop stops one column early.
columnLoop_StopsEarly ==
  /\ pc = "columns"
  /\ IF column < imageData.width - 2
       THEN /\ pc' = "sortColumn"
            /\ Quiet
            /\ phaseBuffer' = phaseBuffer
       ELSE /\ pc' = "rows"
            /\ Notify(Whole(50), "Sorting rows...")
            /\ phaseBuffer' = rgbPixels
  /\ y' = 0
  /\ yEnd' = 0
  /\ UNCHANGED <<engine, whiteValue, blackValue, brightValue, darkValue,
                 imageData, mode, thresholds, rgbPixels, column, row, x, xEnd,
                 result, lastScan, runPixels, saved>>
  /\ UNCHANGED <<progressCallback, caller, outerCallback, heldCalls>>

\* for (let column = 0; column < width - 1; column++): the loop test, then
\* the call of sortColumn (let y = 0; let yEnd = 0) or the row phase.
columnLoop ==
  /\ pc = "columns"
  /\ IF column < imageData.width - 1
       THEN /\ pc' = "sortColumn"
            /\ Quiet
            /\ phaseBuffer' = phaseBuffer
       ELSE /\ pc' = "rows"
            /\ Notify(Whole(50), "Sorting rows...")
            /\ phaseBuffer' = rgbPixels
  /\ y' = 0
  /\ yEnd' = 0
  /\ UNCHANGED <<engine, whiteValue, blackValue, brightValue, darkValue,
                 imageData, mode, thresholds, rgbPixels, column, row, x, xEnd,
                 result, lastScan, runPixels, saved>>
  /\ UNCHANGED <<progressCallback, caller, outerCallback, heldCalls>>

\* Where a scanline method returns to: the loop of sortImage that called it,
\* or the outside code that called it on a buffer it holds.
ReturnTo(loop) == IF caller = "direct" THEN "held" ELSE loop

\* One test of while (yEnd < height - 1) in sortColumn and, when it holds,
\* one pass through the loop body; otherwise the return and column++.
sortColumn ==
  /\ pc = "sortColumn"
  /\ LET width == imageData.width
         height == imageData.height
         sw == SwitchY(rgbPixels, width, height, column, y, yEnd, mode)
         y1 == sw[1]
         yEnd1 == sw[2]
         n == sortingLength(y1, yEnd1)
     IN IF yEnd < height - 1
          THEN IF y1 < 0
                 THEN /\ pc' = ReturnTo("columns")
                      /\ column' = column + 1
                      /\ y' = 0
                      /\ yEnd' = 0
                      /\ rgbPixels' = rgbPixels
                      /\ runPixels' = runPixels
                      /\ lastScan' = [kind |-> "column", line |-> column,
                                      from |-> y, start |-> y1, end |-> y1,
                                      sorted |-> FALSE, before |-> rgbPixels,
                                      reads |-> ReadsFirstNoneY(width, height,
                                                                column, y, y1),
                                      writes |-> {}]
                      /\ NotifyColumn
                 ELSE /\ pc' = "sortColumn"
                      /\ column' = column
                      /\ y' = yEnd1 + 1
                      /\ yEnd' = yEnd1
                      /\ rgbPixels' = SortRun(rgbPixels, column + y1 * width,
                                              width, n)
                      /\ runPixels' = runPixels + (yEnd1 - y1 + 1)
                      /\ lastScan' = [kind |-> "column", line |-> column,
                                      from |-> y, start |-> y1, end |-> yEnd1,
                                      sorted |-> n > 1, before |-> rgbPixels,
                                      reads |->
                                        ReadsFirstNoneY(width, height, column,
                                                        y, y1)
                                        \cup ReadsNextY(width, height, column,
                                                        y1, yEnd1)
                                        \cup Touched(column + y1 * width,
                                                     width, n),
                                      writes |-> Touched(column + y1 * width,
                                                         width, n)]
                      /\ Quiet
          ELSE /\ pc' = ReturnTo("columns")
               /\ column' = column + 1
               /\ y' = 0
               /\ yEnd' = 0
               /\ UNCHANGED <<rgbPixels, runPixels, lastScan>>
               /\ NotifyColumn
  /\ UNCHANGED <<engine, whiteValue, blackValue, brightValue, darkValue,
                 imageData, mode, thresholds, row, x, xEnd, result, saved>>
  /\ UNCHANGED <<progressCallback, caller, outerCallback, phaseBuffer,
                 heldCalls>>

\* for (let row = 0; row < height - 1; row++): the loop test, then the call
\* of sortRow (let x = 0; let xEnd = 0) or the end of the row phase.
rowLoop ==
  /\ pc = "rows"
  /\ IF row < imageData.height - 1
       THEN pc' = "sortRow"
       ELSE pc' = "convert"
  /\ x' = 0
  /\ xEnd' = 0
  /\ UNCHANGED <<engine, whiteValue, blackValue, brightValue, darkValue,
                 imageData, mode, thresholds, rgbPixels, column, row, y, yEnd,
                 result, lastScan, runPixels, saved>>
  /\ UNCHANGED <<progressCallback, sink, phaseBuffer, heldCalls>>
  /\ UNCHANGED processVars

\* One test of while (xEnd < width - 1) in sortRow and, when it holds, one
\* pass through the loop body; otherwise the return and row++.
sortRow ==
  /\ pc = "sortRow"
  /\ LET width == imageData.width
         sw == SwitchX(rgbPixels, width, x, xEnd, row, mode)
         x1 == sw[1]
         xEnd1 == sw[2]
         n == sortingLength(x1, xEnd1)
     IN IF xEnd < width - 1
          THEN IF x1 < 0
                 THEN /\ pc' = ReturnTo("rows")
                      /\ row' = row + 1
                      /\ x' = 0
                      /\ xEnd' = 0
                      /\ rgbPixels' = rgbPixels
                      /\ runPixels' = runPixels
                      /\ lastScan' = [kind |-> "row", line |-> row,
                                      from |-> x, start |-> x1, end |-> x1,
                                      sorted |-> FALSE, before |-> rgbPixels,
                                      reads |-> ReadsFirstNoneX(width, x, row,
                                                                x1),
                                      writes |-> {}]
                      /\ NotifyRow
                 ELSE /\ pc' = "sortRow"
                      /\ row' = row
                      /\ x' = xEnd1 + 1
                      /\ xEnd' = xEnd1
                      /\ rgbPixels' = SortRun(rgbPixels, x1 + row * width, 1, n)
                      /\ runPixels' = runPixels + (xEnd1 - x1 + 1)
                      /\ lastScan' = [kind |-> "row", line |-> row,
                                      from |-> x, start |-> x1, end |-> xEnd1,
                                      sorted |-> n > 1, before |-> rgbPixels,
                                      reads |->
                                        ReadsFirstNoneX(width, x, row, x1)
                                        \cup ReadsNextX(width, x1, row, xEnd1)
                                        \cup Touched(x1 + row * width, 1, n),
                                      writes |-> Touched(x1 + row * width, 1,
                                                         n)]
                      /\ Quiet
          ELSE /\ pc' = ReturnTo("rows")
               /\ row' = row + 1
               /\ x' = 0
               /\ xEnd' = 0
               /\ UNCHANGED <<rgbPixels, runPixels, lastScan>>
               /\ NotifyRow
  /\ UNCHANGED <<engine, whiteValue, blackValue, brightValue, darkValue,
                 imageData, mode, thresholds, column, y, yEnd, result, saved>>
  /\ UNCHANGED <<progressCallback, caller, outerCallback, phaseBuffer,
                 heldCalls>>

\* new ImageData(data, sw, sh) throws unless sw and sh are positive and data
\* holds exactly sw * sh pixels.
ImageDataAccepts(data, width, height) ==
  /\ width > 0
  /\ height > 0
  /\ Len(data) = width * height

\* convertToRGBA and the return: progressCallback(100, 'Complete!') and an
\* ImageData from pixelSort.js, a plain {data, width, height} and no call of
\* progressCallback from imageProcessor.js.
finish ==
  /\ pc = "convert"
  /\ IF engine = "exported"
       THEN Notify(Whole(100), "Complete!")
       ELSE Quiet
  /\ LET data == convertToRGBA(rgbPixels, imageData.data)
     IN IF engine = "exported"
             /\ ~ImageDataAccepts(data, imageData.width, imageData.height)
          THEN /\ pc' = "threw"
               /\ result' = NoResult
          ELSE /\ pc' = "returned"
               /\ result' = [returned |-> TRUE, width |-> imageData.width,
                             height |-> imageData.height, data |-> data]
  /\ UNCHANGED <<engine, whiteValue, blackValue, brightValue, darkValue,
                 imageData, mode, thresholds, rgbPixels, column, row, x, xEnd,
                 y, yEnd, lastScan, runPixels, saved>>
  /\ UNCHANGED <<progressCallback, caller, outerCallback, phaseBuffer,
                 heldCalls>>

\* The promise sortImage returned has settled and the caller has taken the
\* outcome: the call's locals are gone, the threshold fields stay.
settle ==
  /\ pc \in {"returned", "threw"}
  /\ caller = "none"
  /\ pc' = "idle"
  /\ progressCallback' = FALSE
  /\ sink' = <<>>
  /\ phaseBuffer' = <<>>
  /\ heldCalls' = <<>>
  /\ UNCHANGED processVars
  /\ imageData' = NoImage
  /\ mode' = 0
  /\ thresholds' = NoThresholds
  /\ rgbPixels' = <<>>
  /\ column' = 0
  /\ row' = 0
  /\ x' = 0
  /\ xEnd' = 0
  /\ y' = 0
  /\ yEnd' = 0
  /\ result' = NoResult
  /\ lastScan' = NoScan
  /\ runPixels' = 0
  /\ UNCHANGED <<engine, whiteValue, blackValue, brightValue, darkValue, saved>>

Steps == columnLoop \/ sortColumn \/ rowLoop \/ sortRow \/ finish \/ settle

\* The caller's moves between invocations, on the exported sorter.
Call(images) ==
  /\ pc = "idle"
  /\ engine = "exported"
  /\ \/ \E t \in ThresholdConfigs : setThresholds(t)
     \/ \E img \in images, m \in Modes : sortImage(img, m, FALSE)

Next == Call(Images) \/ Steps

Spec == Init /\ [][Next]_vars

---------------------------------------------------------------------------
(* The sorter of imageProcessor.js, called again and again, with one       *)
(* completed invocation kept for comparison.                               *)

\* History only: keep the arguments and the outcome of a completed call.
Remember ==
  /\ pc = "returned"
  /\ ~saved.set
  /\ saved' = [set |-> TRUE, imageData |-> imageData, mode |-> mode,
               thresholds |-> thresholds, bright |-> brightValue,
               result |-> result, runPixels |-> runPixels,
               calls |-> heldCalls, buffer |-> rgbPixels]
  /\ UNCHANGED <<engine, whiteValue, blackValue, brightValue, darkValue, pc,
                 imageData, mode, thresholds, rgbPixels, column, row, x, xEnd,
                 y, yEnd, result, lastScan, runPixels>>
  /\ UNCHANGED <<progressCallback, sink, phaseBuffer, heldCalls>>
  /\ UNCHANGED processVars

\* The caller's moves on the sorter of imageProcessor.js:
\* this.pixelSorter.sortImage(pixelData, mode, thresholds, (progress, text)
\* => ...), taken alone.
CallProcessor(images) ==
  /\ pc = "idle"
  /\ engine = "processor"
  /\ caller = "none"
  /\ \E img \in images, m \in Modes, t \in ThresholdConfigs :
       sortImageWithThresholds(img, m, t, TRUE)
  /\ UNCHANGED processVars

\* 3 x 2 images of two colours whose last row, which no phase sorts, is fixed.
HistoryImages ==
  {img \in ImagesOver({PixB, PixC}, {<<3, 2>>}) :
     \A i \in 4 .. 6 : img.data[i] = PixB}

NextHistory == CallProcessor(HistoryImages) \/ Steps \/ Remember

SpecHistory == InitProcessor /\ [][NextHistory]_vars

\* The same call with thresholds objects that lack fields among them.
CallMerging(images) ==
  /\ pc = "idle"
  /\ engine = "processor"
  /\ caller = "none"
  /\ \E img \in images, m \in Modes, t \in ProcessorThresholdConfigs :
       sortImageWithThresholds(img, m, t, TRUE)
  /\ UNCHANGED processVars

NextMerging == CallMerging(HistoryImages) \/ Steps

SpecMerging == InitProcessor /\ [][NextMerging]_vars

---------------------------------------------------------------------------
(* ImageProcessor.processImage and its progress notifications.             *)

\* processImage(imageUri, mode, thresholds, progressCallback) up to its
\* first await: progressCallback(10, 'Loading image...').
processImage(m, t, cb) ==
  /\ engine = "processor"
  /\ pc = "idle"
  /\ caller = "none"
  /\ caller' = "loading"
  /\ outerCallback' = cb
  /\ outerSink' = Received(<<>>, cb, Whole(10), "Loading image...")
  /\ mode' = m
  /\ thresholds' = t
  /\ UNCHANGED <<engine, whiteValue, blackValue, brightValue, darkValue, pc,
                 imageData, rgbPixels, column, row, x, xEnd, y, yEnd, result,
                 lastScan, runPixels, saved, progressCallback, sink,
                 phaseBuffer, heldCalls>>

\* manipulateAsync has resolved: progressCallback(20, ...) and the call of
\* base64ToPixelData.
imageLoaded ==
  /\ caller = "loading"
  /\ caller' = "converting"
  /\ outerSink' = Received(outerSink, outerCallback, Whole(20),
                           "Converting to pixel data...")
  /\ UNCHANGED <<engine, whiteValue, blackValue, brightValue, darkValue, pc,
                 imageData, mode, thresholds, rgbPixels, column, row, x, xEnd,
                 y, yEnd, result, lastScan, runPixels, saved,
                 progressCallback, sink, outerCallback, phaseBuffer,
                 heldCalls>>

\* base64ToPixelData has resolved with pixelData: progressCallback(30, ...)
\* and the call of this.pixelSorter.sortImage, which runs up to its column
\* loop and makes its first notification through the rescaling callback.
pixelDataReady(images) ==
  /\ caller = "converting"
  /\ caller' = "sorting"
  /\ \E img \in images :
       /\ sortImageWithThresholds(img, mode, thresholds, TRUE)
       /\ LET started == Received(outerSink, outerCallback, Whole(30),
                                  "Starting pixel sort...")
          IN outerSink' =
               IF img.width * img.height < 0
                 THEN started
                 ELSE Received(started, outerCallback, Rescale(Whole(0)),
                               "Sorting columns...")
  /\ UNCHANGED outerCallback

\* The promise of sortImage has settled inside processImage: on a result,
\* progressCallback(90, ...) and the call of pixelDataToBase64; on an error
\* the catch block logs and rethrows.
sorterSettled ==
  /\ caller = "sorting"
  /\ pc \in {"returned", "threw"}
  /\ IF pc = "returned"
       THEN /\ caller' = "encoding"
            /\ outerSink' = Received(outerSink, outerCallback, Whole(90),
                                     "Creating final image...")
       ELSE /\ caller' = "failed"
            /\ outerSink' = outerSink
  /\ pc' = "idle"
  /\ imageData' = NoImage
  /\ mode' = 0
  /\ thresholds' = NoThresholds
  /\ rgbPixels' = <<>>
  /\ column' = 0
  /\ row' = 0
  /\ x' = 0
  /\ xEnd' = 0
  /\ y' = 0
  /\ yEnd' = 0
  /\ result' = NoResult
  /\ lastScan' = NoScan
  /\ runPixels' = 0
  /\ progressCallback' = FALSE
  /\ sink' = <<>>
  /\ phaseBuffer' = <<>>
  /\ heldCalls' = <<>>
  /\ UNCHANGED <<engine, whiteValue, blackValue, brightValue, darkValue,
                 saved, outerCallback>>

\* pixelDataToBase64 and writeAsStringAsync have resolved:
\* progressCallback(100, 'Complete!') and return fileUri.
imageSaved ==
  /\ caller = "encoding"
  /\ caller' = "done"
  /\ outerSink' = Received(outerSink, outerCallback, Whole(100), "Complete!")
  /\ UNCHANGED <<engine, whiteValue, blackValue, brightValue, darkValue, pc,
                 imageData, mode, thresholds, rgbPixels, column, row, x, xEnd,
                 y, yEnd, result, lastScan, runPixels, saved,
                 progressCallback, sink, outerCallback, phaseBuffer,
                 heldCalls>>

\* The promise of processImage has settled and its caller has taken the
\* outcome.
processSettled ==
  /\ caller \in {"done", "failed"}
  /\ caller' = "none"
  /\ outerCallback' = FALSE
  /\ outerSink' = <<>>
  /\ UNCHANGED <<engine, whiteValue, blackValue, brightValue, darkValue, pc,
                 imageData, mode, thresholds, rgbPixels, column, row, x, xEnd,
                 y, yEnd, result, lastScan, runPixels, saved,
                 progressCallback, sink, phaseBuffer, heldCalls>>

\* Sides of the larger images, long enough for a second notification from
\* inside a loop (column % 10 === 0 at column 10).
MaxSide == 12

\* Period of the colour pattern of the larger images.
MaxStripe == 2

\* The width x height image whose every k-th pixel is PixA, the others PixB.
Striped(w, h, k) ==
  [width |-> w, height |-> h,
   data |-> [i \in 1 .. w * h |-> IF i % k = 0 THEN PixA ELSE PixB]]

\* Short sides, and the two sides around the second notification.
ProgressSides == {1, 2, 3, MaxSide - 1, MaxSide}

ProgressImages ==
  {Striped(w, h, k) : w \in ProgressSides, h \in ProgressSides,
                      k \in 1 .. MaxStripe}

\* The two ways in: sortImage of pixelSort.js and processImage, each with or
\* without a progressCallback.
CallProgress(images) ==
  \/ /\ pc = "idle"
     /\ engine = "exported"
     /\ \E img \in images, m \in Modes, cb \in BOOLEAN : sortImage(img, m, cb)
  \/ \E m \in Modes, t \in {DefaultThresholds, ZeroThresholds, EmptyThresholds},
        cb \in BOOLEAN : processImage(m, t, cb)

NextProgress ==
  \/ CallProgress(ProgressImages)
  \/ imageLoaded
  \/ pixelDataReady(ProgressImages)
  \/ sorterSettled
  \/ imageSaved
  \/ processSettled
  \/ Steps

SpecProgress == InitEither /\ [][NextProgress]_vars

---------------------------------------------------------------------------
(* The exported sorter under fair scheduling: sortImage has no await, so a *)
(* call that has started keeps running until it returns or throws.         *)

\* Largest number of pixels of the images of the termination check.
MaxLivePixels == 4

LiveImages ==
  ImagesOver(Palette, {d \in Dims : d[1] * d[2] <= MaxLivePixels})

NextTerminates == Call(LiveImages) \/ Steps

SpecTerminates == Init /\ [][NextTerminates]_vars /\ WF_vars(Steps)

---------------------------------------------------------------------------
(* The small images together with square images on which both phases have *)
(* runs to reorder.                                                        *)

\* Side of the square images.
MaxCross == 3

\* The image whose pixel in row r, column c is PixB, PixC or PixA as zero,
\* one or two of the marks rows[r], cols[c] are set.
Crossed(rows, cols) ==
  [width |-> MaxCross, height |-> MaxCross,
   data |-> [i \in 1 .. MaxCross * MaxCross |->
               LET r == rows[(i - 1) \div MaxCross + 1]
                   c == cols[((i - 1) % MaxCross) + 1]
               IN IF r /\ c THEN PixA ELSE IF r \/ c THEN PixC ELSE PixB]]

CrossImages ==
  {Crossed(rows, cols) : rows \in [1 .. MaxCross -> BOOLEAN],
                         cols \in [1 .. MaxCross -> BOOLEAN]}

NextPhases == Call(Images \cup CrossImages) \/ Steps

SpecPhases == Init /\ [][NextPhases]_vars

---------------------------------------------------------------------------
(* Colours from the ends and the middle of each channel's range, in pairs. *)

\* Channel values: both ends of the byte range, their neighbours' low bit,
\* and a value between the default thresholds.
ChannelValues == {0, 1, 200, 255}

Colours ==
  {[r |-> cr, g |-> cg, b |-> cb, a |-> 255] :
     cr \in ChannelValues, cg \in ChannelValues, cb \in ChannelValues}

\* Two rows p, q, q: a run over a whole row sorts p against q.
PackingImages ==
  {[width |-> 3, height |-> 2, data |-> <<p, q, q, p, q, q>>] :
     p \in Colours, q \in Colours}

\* sortImage with the constructor's thresholds.
CallPacking(images) ==
  /\ pc = "idle"
  /\ engine = "exported"
  /\ \E img \in images, m \in Modes : sortImage(img, m, FALSE)

NextPacking == CallPacking(PackingImages) \/ Steps

SpecPacking == Init /\ [][NextPacking]_vars

---------------------------------------------------------------------------
(* One image sorted in Bright mode under one threshold after another.      *)

\* The caller sorts an image in Bright mode, then the same image again.
CallBright(images) ==
  /\ pc = "idle"
  /\ engine = "exported"
  /\ \/ \E t \in ThresholdConfigs : setThresholds(t)
     \/ \E img \in (IF saved.set THEN {saved.imageData} ELSE images) :
          sortImage(img, 2, FALSE)

NextBright == CallBright(Images) \/ Steps \/ Remember

SpecBright == Init /\ [][NextBright]_vars

---------------------------------------------------------------------------
(* Malformed input: dimensions that are not positive, or a buffer whose    *)
(* length is not width * height pixels.                                    *)

Malformed(img) ==
  \/ img.width <= 0
  \/ img.height <= 0
  \/ Len(img.data) # img.width * img.height

MalformedImages ==
  {img \in UNION {{[width |-> w, height |-> h, data |-> d] :
                     d \in [1 .. n -> {PixB, PixC}]} :
                   w \in -1 .. MaxBadWidth, h \in -1 .. MaxBadHeight,
                   n \in 0 .. MaxBadLength} :
     Malformed(img)}

NextMalformed ==
  \/ Call(MalformedImages)
  \/ CallProcessor(MalformedImages)
  \/ Steps

SpecMalformed == InitEither /\ [][NextMalformed]_vars

---------------------------------------------------------------------------
(* Vocabulary of the properties.  Positions along a scanline are 0-based,  *)
(* as in the code.                                                         *)

Width == imageData.width

Height == imageData.height

\* Number of positions of a scanline: a row holds width, a column height.
LineLength(kind) == IF kind = "row" THEN Width ELSE Height

\* 0-based buffer index of position pos of row / column number line.
BufferIndex(kind, line, pos) ==
  IF kind = "row" THEN pos + line * Width ELSE line + pos * Width

\* Packed value at position pos of a scanline of buffer pixels.
ValueAt(pixels, kind, line, pos) == pixels[BufferIndex(kind, line, pos) + 1]

\* The test a pixel passes to start a run, per mode.
StartTest(v, m) ==
  CASE m = 0 -> v >= whiteValue
    [] m = 1 -> v <= blackValue
    [] m = 2 -> getBrightness(v) >= brightValue
    [] m = 3 -> getBrightness(v) <= darkValue
    [] OTHER -> FALSE

\* The continuation test as the specification words it.
StatedContinueTest(v, m) ==
  CASE m = 0 -> v <= whiteValue
    [] m = 1 -> v >= blackValue
    [] m = 2 -> getBrightness(v) <= brightValue
    [] m = 3 -> getBrightness(v) >= darkValue
    [] OTHER -> FALSE

\* The strict continuation test.
StrictContinueTest(v, m) ==
  CASE m = 0 -> v > whiteValue
    [] m = 1 -> v < blackValue
    [] m = 2 -> getBrightness(v) > brightValue
    [] m = 3 -> getBrightness(v) < darkValue
    [] OTHER -> FALSE

MinOf(S) == CHOOSE i \in S : \A j \in S : i <= j

MaxOf(S) == CHOOSE i \in S : \A j \in S : j <= i

\* Positions p .. n-1 of the scanline that pass the start test.
StartCandidates(pixels, kind, line, p, m) ==
  {i \in p .. LineLength(kind) - 1 : StartTest(ValueAt(pixels, kind, line, i), m)}

\* The last position e >= s such that every position s+1 .. e passes Test.
RunEndBy(pixels, kind, line, s, m, Test(_, _)) ==
  MaxOf({e \in s .. LineLength(kind) - 1 :
           \A i \in s + 1 .. e : Test(ValueAt(pixels, kind, line, i), m)})

\* Number of times v occurs among the positions s .. e of a scanline.
Occurrences(pixels, kind, line, s, e, v) ==
  Cardinality({i \in s .. e : ValueAt(pixels, kind, line, i) = v})

RunIndices(kind, line, s, e) == {BufferIndex(kind, line, i) + 1 : i \in s .. e}

\* A scan has been recorded and it found a run.
RunDetected == lastScan.kind # "none" /\ lastScan.start >= 0

\* The sorter is still inside the loop of the recorded scanline.
InsideScanline ==
  \/ lastScan.kind = "column" /\ pc = "sortColumn" /\ column = lastScan.line
  \/ lastScan.kind = "row" /\ pc = "sortRow" /\ row = lastScan.line

---------------------------------------------------------------------------
(* C1.  Alpha preservation: when sortImage returns, the returned buffer    *)
(* has the input's length and each of its pixels carries the alpha of the  *)
(* input pixel at the same index, whatever the mode and thresholds; the    *)
(* column and row sorts work on the packed buffer, which holds no alpha.   *)

C1_AlphaPreserved ==
  pc = "returned" =>
    /\ Len(result.data) = Len(imageData.data)
    /\ \A i \in 1 .. Len(imageData.data) : result.data[i].a = imageData.data[i].a

\* A returned image whose colours were moved while its alphas differ.
C1_Witness ==
  /\ pc = "returned"
  /\ \E i \in 1 .. Len(result.data) :
       /\ result.data[i] # imageData.data[i]
       /\ result.data[i].a = imageData.data[i].a
       /\ result.data[i].a # 255

---------------------------------------------------------------------------
(* C2.  Run-local permutation: after a loop pass that detected the run     *)
(* [start, end] of a scanline, every packed value occurs among the run's   *)
(* positions as often as before the pass, and no buffer index outside the  *)
(* run's positions was written.                                            *)

C2_RunLocalPermutation ==
  RunDetected =>
    LET k == lastScan.kind
        l == lastScan.line
        s == lastScan.start
        e == lastScan.end
        before == lastScan.before
    IN /\ Len(rgbPixels) = Len(before)
       /\ \A i \in s .. e :
            Occurrences(rgbPixels, k, l, s, e, ValueAt(before, k, l, i))
              = Occurrences(before, k, l, s, e, ValueAt(before, k, l, i))
       /\ \A j \in (1 .. Len(before)) \ RunIndices(k, l, s, e) :
            rgbPixels[j] = before[j]

\* A pass that reordered the pixels of a run.
C2_Witness ==
  /\ RunDetected
  /\ lastScan.sorted
  /\ rgbPixels # lastScan.before

---------------------------------------------------------------------------
(* C3.  The claim as stated: after a pass that detected a run [start, end] *)
(* of more than one pixel, the positions start .. end inclusive hold their *)
(* values in ascending order.                                              *)

C3_RunSortedInclusive ==
  (RunDetected /\ lastScan.end > lastScan.start) =>
    \A i \in lastScan.start .. lastScan.end - 1 :
      ValueAt(rgbPixels, lastScan.kind, lastScan.line, i)
        <= ValueAt(rgbPixels, lastScan.kind, lastScan.line, i + 1)

---------------------------------------------------------------------------
(* C4.  Run start: a loop pass that scans from pointer p starts its run at *)
(* the first position i >= p passing the mode's start test (packed >=      *)
(* whiteValue, packed <= blackValue, luminance >= brightValue, luminance   *)
(* <= darkValue); when no position passes, no run is found, the buffer is  *)
(* left alone and the sorter leaves that scanline.                         *)

C4_RunStartIsFirstMatch ==
  lastScan.kind # "none" =>
    LET cands == StartCandidates(lastScan.before, lastScan.kind,
                                 lastScan.line, lastScan.from, mode)
    IN IF cands = {}
         THEN /\ lastScan.start = -1
              /\ rgbPixels = lastScan.before
              /\ ~InsideScanline
         ELSE lastScan.start = MinOf(cands)

\* A pass that resumed after an earlier run and skipped pixels to its start.
C4_Witness ==
  /\ RunDetected
  /\ lastScan.from > 0
  /\ lastScan.start > lastScan.from

---------------------------------------------------------------------------
(* C5.  As stated: from the run start the run extends over the following   *)
(* pixels while packed <= whiteValue (White), packed >= blackValue         *)
(* (Black), luminance <= brightValue (Bright), luminance >= darkValue      *)
(* (Dark); the run end is the last position that passed, or the last       *)
(* position of the scanline.                                               *)

C5_RunEndAsStated ==
  RunDetected =>
    lastScan.end = RunEndBy(lastScan.before, lastScan.kind, lastScan.line,
                            lastScan.start, mode, StatedContinueTest)

(* C5, amended.  The run extends while packed > whiteValue (White),        *)
(* packed < blackValue (Black), luminance > brightValue (Bright),          *)
(* luminance < darkValue (Dark): it stops at, and excludes, the first      *)
(* position that fails the strict test.  The run end is the last position  *)
(* that passed (the start itself when none did), or the last position of   *)
(* the scanline when the scan reaches its end.                             *)

C5_RunEndStrict ==
  RunDetected =>
    lastScan.end = RunEndBy(lastScan.before, lastScan.kind, lastScan.line,
                            lastScan.start, mode, StrictContinueTest)

\* A run of several pixels that a failing pixel ended before the scanline did.
C5_Witness ==
  /\ RunDetected
  /\ lastScan.end > lastScan.start
  /\ lastScan.end < LineLength(lastScan.kind) - 1

---------------------------------------------------------------------------
(* C6.  As stated: for an image of width 1 or height 1, the returned       *)
(* image's single scanline holds every run that the mode's tests detect in *)
(* the input scanline in ascending packed order.                           *)

\* The runs <<s, e>> that a scan from position p detects in a scanline.
RECURSIVE RunsFrom(_, _, _, _, _)
RunsFrom(pixels, kind, line, p, m) ==
  LET cands == StartCandidates(pixels, kind, line, p, m)
  IN IF cands = {} THEN {}
     ELSE LET s == MinOf(cands)
              e == RunEndBy(pixels, kind, line, s, m, StrictContinueTest)
          IN {<<s, e>>} \cup RunsFrom(pixels, kind, line, e + 1, m)

\* The orientation of the one scanline of a degenerate image.
SingleLineKind == IF Height = 1 THEN "row" ELSE "column"

C6_DegenerateLineSorted ==
  (pc = "returned" /\ (Width = 1 \/ Height = 1)) =>
    LET input == convertToRGB(imageData.data, Width, Height)
        output == convertToRGB(result.data, Width, Height)
    IN \A run \in RunsFrom(input, SingleLineKind, 0, 0, mode) :
         \A i \in run[1] .. run[2] - 1 :
           ValueAt(output, SingleLineKind, 0, i)
             <= ValueAt(output, SingleLineKind, 0, i + 1)

---------------------------------------------------------------------------
(* C7.  A solid-colour image comes back unchanged: when every pixel of the *)
(* input has the same R, G, B, the returned buffer equals the input buffer *)
(* and the dimensions are the input's, in every mode and threshold setting.*)

Solid(img) ==
  \A i, j \in 1 .. Len(img.data) :
    /\ img.data[i].r = img.data[j].r
    /\ img.data[i].g = img.data[j].g
    /\ img.data[i].b = img.data[j].b

C7_SolidUnchanged ==
  (pc = "returned" /\ Solid(imageData)) =>
    /\ result.data = imageData.data
    /\ result.width = Width
    /\ result.height = Height

\* A solid image in which a run was gathered, sorted and written back.
C7_Witness ==
  /\ pc = "returned"
  /\ Solid(imageData)
  /\ lastScan.sorted
  /\ imageData.data[1].r # imageData.data[1].g

---------------------------------------------------------------------------
(* C8.  Determinism as stated: on one sorter, an invocation given the      *)
(* buffer, mode and thresholds of an earlier invocation returns what that  *)
(* invocation returned, whatever was sorted in between.                    *)

C8_SameArgumentsSameResult ==
  (/\ pc = "returned"
   /\ saved.set
   /\ saved.imageData = imageData
   /\ saved.mode = mode
   /\ saved.thresholds = thresholds) => result = saved.result

---------------------------------------------------------------------------
(* C9.  Threshold monotonicity in Bright mode: of two sorts of the same    *)
(* image, the one with the larger brightValue detects runs covering no     *)
(* more pixels in total than the one with the smaller brightValue.         *)

C9_BrightMonotone ==
  (/\ pc = "returned"
   /\ saved.set
   /\ saved.imageData = imageData
   /\ saved.mode = 2
   /\ mode = 2) =>
    /\ saved.bright <= brightValue => runPixels <= saved.runPixels
    /\ brightValue <= saved.bright => saved.runPixels <= runPixels

\* Two sorts of one image where the larger threshold found strictly fewer
\* run pixels, but some.
C9_Witness ==
  /\ pc = "returned"
  /\ saved.set
  /\ saved.imageData = imageData
  /\ saved.bright < brightValue
  /\ 0 < runPixels
  /\ runPixels < saved.runPixels

---------------------------------------------------------------------------
(* C10.  As stated: given malformed input, sortImage fails before any      *)
(* pixel is read, packed or sorted, and returns no buffer.                 *)

C10_MalformedRejected ==
  (pc # "idle" /\ Malformed(imageData)) =>
    /\ pc = "threw"
    /\ rgbPixels = <<>>
    /\ lastScan = NoScan
    /\ ~result.returned

---------------------------------------------------------------------------
(* C11.  Progress is monotone: the percentages that sortImage has passed   *)
(* to its progressCallback so far, and those that processImage has passed  *)
(* to its own (10, 20, 30, then 30 + 0.6 p for each p of the sorter, then  *)
(* 90 and 100), never decrease from one call to the next, and each lies in *)
(* [0, 100].                                                               *)

\* a <= b on percentages.
Leq(a, b) == a.num * b.den <= b.num * a.den

NonDecreasing(calls) ==
  \A i \in 1 .. Len(calls) - 1 : Leq(calls[i].percent, calls[i + 1].percent)

WithinRange(calls) ==
  \A i \in 1 .. Len(calls) :
    Leq(Whole(0), calls[i].percent) /\ Leq(calls[i].percent, Whole(100))

C11_ProgressMonotone ==
  /\ NonDecreasing(sink)
  /\ WithinRange(sink)
  /\ NonDecreasing(outerSink)
  /\ WithinRange(outerSink)

\* A sort inside processImage has returned after notifications from inside
\* both loops (column 10 and row 10), each passed on rescaled.
C11_Witness ==
  /\ pc = "returned"
  /\ caller = "sorting"
  /\ Len(outerSink) = Len(sink) + 3
  /\ \E i \in 1 .. Len(sink) :
       /\ sink[i].text = "Sorting columns..."
       /\ Leq(Whole(1), sink[i].percent)
  /\ \E i \in 1 .. Len(sink) :
       /\ sink[i].text = "Sorting rows..."
       /\ ~Leq(sink[i].percent, Whole(50))

---------------------------------------------------------------------------
(* C12.  As stated: a sortImage run that was given a progressCallback and  *)
(* has returned a buffer made its last call to it with percentage 100 and  *)
(* the label 'Complete!', in either copy of the sorter.                    *)

C12_FinalCallComplete ==
  (pc = "returned" /\ progressCallback) =>
    /\ sink # <<>>
    /\ sink[Len(sink)] = [percent |-> Whole(100), text |-> "Complete!"]

---------------------------------------------------------------------------
(* C13.  As stated: sortImage on a well-formed buffer returns without an   *)
(* error, because every pass through the loop of sortColumn / sortRow      *)
(* strictly increases the run-end index yEnd / xEnd.                       *)

\* A pass through the loop body of sortColumn / sortRow that stays in it.
ColumnPass == pc = "sortColumn" /\ pc' = "sortColumn"

RowPass == pc = "sortRow" /\ pc' = "sortRow"

Running == pc \in {"columns", "sortColumn", "rows", "sortRow", "convert"}

\* Every call that has started returns, and none throws.
Terminates == (Running ~> pc = "returned") /\ [](pc # "threw")

---------------------------------------------------------------------------
(* C14.  Phase ordering: while columns are sorted no row has been sorted;  *)
(* once rows are sorted every column 0 .. width-2 has been through         *)
(* sortColumn and the last column has not; only rows 0 .. height-2 go      *)
(* through sortRow; and a pass of sortRow reads, at the positions of its   *)
(* row it has not passed yet, the values the column phase left in the      *)
(* working buffer.                                                         *)

InColumnPhase == pc \in {"columns", "sortColumn"}

InRowPhase == pc \in {"rows", "sortRow", "convert", "returned"}

C14_ColumnsBeforeRows ==
  /\ InColumnPhase =>
       /\ row = 0
       /\ lastScan.kind # "row"
       /\ lastScan.kind = "column" =>
            lastScan.line <= column /\ lastScan.line <= Width - 2
  /\ InRowPhase =>
       /\ column = (IF Width > 1 THEN Width - 1 ELSE 0)
       /\ Len(phaseBuffer) = Len(rgbPixels)
       /\ lastScan.kind = "row" =>
            /\ lastScan.line <= Height - 2
            /\ \A pos \in lastScan.from .. Width - 1 :
                 ValueAt(lastScan.before, "row", lastScan.line, pos)
                   = ValueAt(phaseBuffer, "row", lastScan.line, pos)

\* A row pass has reordered pixels of a row that the column phase had
\* changed.
C14_Witness ==
  /\ pc = "sortRow"
  /\ lastScan.kind = "row"
  /\ lastScan.sorted
  /\ rgbPixels # lastScan.before
  /\ \E pos \in 0 .. Width - 1 :
       ValueAt(phaseBuffer, "row", lastScan.line, pos)
         # ValueAt(convertToRGB(imageData.data, Width, Height), "row",
                   lastScan.line, pos)

---------------------------------------------------------------------------
(* C15.  Packing round trip: every packed value lies in -16777216 .. -1;   *)
(* pixels with different (R, G, B) get different packed values; unpacking  *)
(* the freshly packed buffer gives back the input's R, G and B; and the    *)
(* returned pixels are exactly the colours whose packing is the sorted     *)
(* buffer.                                                                 *)

SameRGB(p, q) == p.r = q.r /\ p.g = q.g /\ p.b = q.b

\* convertToRGB has just run and no scanline has been sorted yet.
JustPacked == pc = "columns" /\ column = 0

C15_PackingRoundTrip ==
  /\ \A i \in 1 .. Len(rgbPixels) :
       -16777216 <= rgbPixels[i] /\ rgbPixels[i] <= -1
  /\ JustPacked =>
       /\ \A i, j \in 1 .. Len(rgbPixels) :
            rgbPixels[i] = rgbPixels[j]
              => SameRGB(imageData.data[i], imageData.data[j])
       /\ convertToRGBA(rgbPixels, imageData.data) = imageData.data
  /\ pc = "returned" =>
       \A i \in 1 .. Len(rgbPixels) :
         /\ result.data[i].r \in 0 .. 255
         /\ result.data[i].g \in 0 .. 255
         /\ result.data[i].b \in 0 .. 255
         /\ PackRGB(result.data[i].r, result.data[i].g, result.data[i].b)
              = rgbPixels[i]

\* A returned image, reordered by the sort, that holds a colour with three
\* different channel values next to one that differs from it in blue only.
C15_Witness ==
  /\ pc = "returned"
  /\ result.data # imageData.data
  /\ \E i, j \in 1 .. Len(result.data) :
       /\ result.data[i].r = 255
       /\ result.data[i].g = 200
       /\ result.data[i].b = 0
       /\ result.data[j].r = 255
       /\ result.data[j].g = 200
       /\ result.data[j].b = 1

---------------------------------------------------------------------------
(* C16.  The sort key is the packed integer in every mode: after a pass    *)
(* that sorted a run, the sorted positions start .. end-1 hold the values  *)
(* they held before in ascending packed order, in Bright and Dark mode as  *)
(* in White and Black; and of two pixels the one with the smaller packed   *)
(* value is the one whose (R, G, B) comes first lexicographically, red     *)
(* first, then green, then blue.                                           *)

\* (R, G, B) of p before (R, G, B) of q, lexicographically.
LexLess(p, q) ==
  \/ p.r < q.r
  \/ p.r = q.r /\ p.g < q.g
  \/ p.r = q.r /\ p.g = q.g /\ p.b < q.b

C16_SortKeyIsPacked ==
  /\ (RunDetected /\ lastScan.sorted) =>
       /\ \A i \in lastScan.start .. lastScan.end - 2 :
            ValueAt(rgbPixels, lastScan.kind, lastScan.line, i)
              <= ValueAt(rgbPixels, lastScan.kind, lastScan.line, i + 1)
       /\ \A i \in lastScan.start .. lastScan.end - 1 :
            Occurrences(rgbPixels, lastScan.kind, lastScan.line,
                        lastScan.start, lastScan.end - 1,
                        ValueAt(lastScan.before, lastScan.kind,
                                lastScan.line, i))
              = Occurrences(lastScan.before, lastScan.kind, lastScan.line,
                            lastScan.start, lastScan.end - 1,
                            ValueAt(lastScan.before, lastScan.kind,
                                    lastScan.line, i))
  /\ JustPacked =>
       \A i, j \in 1 .. Len(rgbPixels) :
         rgbPixels[i] < rgbPixels[j]
           <=> LexLess(imageData.data[i], imageData.data[j])

\* A Dark-mode pass has moved a pixel in front of a pixel of lower
\* luminance: the two orders disagree and the packed one was used.
C16_Witness ==
  /\ mode = 3
  /\ RunDetected
  /\ lastScan.sorted
  /\ rgbPixels # lastScan.before
  /\ getBrightness(ValueAt(rgbPixels, lastScan.kind, lastScan.line,
                           lastScan.start))
       > getBrightness(ValueAt(rgbPixels, lastScan.kind, lastScan.line,
                               lastScan.start + 1))

---------------------------------------------------------------------------
(* C17.  As stated: every buffer index that a pass of sortRow reads or     *)
(* writes lies in the row being sorted, and every index that a pass of     *)
(* sortColumn reads or writes lies in the column being sorted.             *)

\* The 0-based buffer indices of a scanline.
LineIndices(kind, line) ==
  {BufferIndex(kind, line, pos) : pos \in 0 .. LineLength(kind) - 1}

C17_ScanlineLocal ==
  lastScan.kind # "none" =>
    /\ lastScan.reads \subseteq LineIndices(lastScan.kind, lastScan.line)
    /\ lastScan.writes \subseteq LineIndices(lastScan.kind, lastScan.line)

---------------------------------------------------------------------------
(* C18.  The last row and the last column come back as they went in: no    *)
(* pass writes a buffer index of the last row (y = height-1) or of the     *)
(* last column (x = width-1), and in the returned image every pixel of     *)
(* that row and that column has the R, G, B of the input pixel at the same *)
(* index.                                                                  *)

\* The 1-based buffer indices of the last row and the last column.
Border ==
  {i \in 1 .. Width * Height :
     (i - 1) \div Width = Height - 1 \/ (i - 1) % Width = Width - 1}

C18_BorderUnchanged ==
  /\ \A k \in lastScan.writes :
       k \div Width # Height - 1 /\ k % Width # Width - 1
  /\ pc = "returned" =>
       \A i \in Border : SameRGB(result.data[i], imageData.data[i])

\* A returned image that both phases changed, whose last row and last
\* column each hold a colour that would sort in front of a neighbour.
C18_Witness ==
  /\ pc = "returned"
  /\ Width > 2
  /\ Height > 2
  /\ phaseBuffer # convertToRGB(imageData.data, Width, Height)
  /\ rgbPixels # phaseBuffer
  /\ \E i \in Border : i - Width >= 1 /\ rgbPixels[i] < rgbPixels[i - Width]
  /\ \E i \in Border : (i - 1) % Width > 0 /\ rgbPixels[i] < rgbPixels[i - 1]

---------------------------------------------------------------------------
(* C19.  The working buffer is a permutation of the packed input at every  *)
(* point of a sortImage run; in the column phase every column holds the    *)
(* packed values it held in the input, in the row phase every row holds    *)
(* the values it held when the column phase ended; and the R, G, B values  *)
(* of the returned image are a permutation of the input's.                 *)

\* Number of the 1-based indices in S at which pixels holds v.
CountIn(pixels, S, v) == Cardinality({k \in S : pixels[k] = v})

\* The multiset of the values of pixels at the indices S: each value that
\* occurs there, with the number of times it does.
MultisetOf(pixels, S) ==
  [v \in {pixels[k] : k \in S} |-> CountIn(pixels, S, v)]

SameMultiset(p, q, S) == MultisetOf(p, S) = MultisetOf(q, S)

ColumnOf(c) == {c + r * Width + 1 : r \in 0 .. Height - 1}

RowOf(r) == {c + r * Width + 1 : c \in 0 .. Width - 1}

PackedInput == convertToRGB(imageData.data, Width, Height)

C19_MultisetPreserved ==
  LET input == PackedInput
  IN /\ (InColumnPhase \/ InRowPhase) =>
          /\ Len(rgbPixels) = Len(input)
          /\ SameMultiset(rgbPixels, input, 1 .. Len(input))
     /\ InColumnPhase =>
          \A c \in 0 .. Width - 1 :
            SameMultiset(rgbPixels, input, ColumnOf(c))
     /\ InRowPhase =>
          \A r \in 0 .. Height - 1 :
            SameMultiset(rgbPixels, phaseBuffer, RowOf(r))
     /\ pc = "returned" =>
          SameMultiset(convertToRGB(result.data, Width, Height), input,
                       1 .. Len(input))

\* In the row phase, after a row pass that reordered pixels, of an image
\* whose columns the column phase had reordered.
C19_Witness ==
  /\ pc = "sortRow"
  /\ lastScan.kind = "row"
  /\ rgbPixels # lastScan.before
  /\ phaseBuffer # PackedInput
  /\ \E c \in 0 .. Width - 1 :
       ~SameMultiset(rgbPixels, PackedInput, ColumnOf(c))

---------------------------------------------------------------------------
(* C20.  In the sorter of imageProcessor.js a call of sortImage replaces a *)
(* threshold field exactly when the thresholds argument carries a non-zero *)
(* value for it; a supplied 0 or a missing field leaves the field at the   *)
(* value the previous call left (the constructor default on the first      *)
(* call), and the fields do not change while the call runs.                *)

\* The argument t carries a truthy value for field f.
Supplied(t, f) == f \in DOMAIN t /\ t[f] # 0

\* The step that enters sortImage on the sorter of imageProcessor.js.
EntersSortImage == engine = "processor" /\ pc = "idle" /\ pc' # "idle"

C20_FalsyThresholdKeepsField ==
  [][/\ EntersSortImage =>
          /\ whiteValue' = (IF Supplied(thresholds', "white")
                              THEN thresholds'.white ELSE whiteValue)
          /\ blackValue' = (IF Supplied(thresholds', "black")
                              THEN thresholds'.black ELSE blackValue)
          /\ brightValue' = (IF Supplied(thresholds', "bright")
                               THEN thresholds'.bright ELSE brightValue)
          /\ darkValue' = (IF Supplied(thresholds', "dark")
                             THEN thresholds'.dark ELSE darkValue)
     /\ pc # "idle" =>
          UNCHANGED <<whiteValue, blackValue, brightValue, darkValue>>]_vars

\* A Bright-mode call given bright = 0 sorts a run with the threshold that
\* an earlier call left, neither 0 nor the constructor's default.
C20_Witness ==
  /\ engine = "processor"
  /\ mode = 2
  /\ lastScan.sorted
  /\ rgbPixels # lastScan.before
  /\ "bright" \in DOMAIN thresholds
  /\ thresholds.bright = 0
  /\ brightValue # 0
  /\ brightValue # DefaultBrightValue

---------------------------------------------------------------------------
(* The scanline methods called by outside code on a buffer it holds, and   *)
(* modes that no case of the switch matches.                               *)

\* Outside code packs an image with convertToRGB and keeps the Int32Array;
\* m is the mode it passes to the scanline methods it calls on the buffer.
holdBuffer(img, m) ==
  /\ engine = "exported"
  /\ \/ pc = "idle" /\ caller = "none"
     \/ pc = "held" /\ caller = "direct"
  /\ pc' = "held"
  /\ caller' = "direct"
  /\ imageData' = img
  /\ mode' = m
  /\ rgbPixels' = convertToRGB(img.data, img.width, img.height)
  /\ heldCalls' = <<>>
  /\ column' = 0
  /\ row' = 0
  /\ x' = 0
  /\ xEnd' = 0
  /\ y' = 0
  /\ yEnd' = 0
  /\ lastScan' = NoScan
  /\ runPixels' = 0
  /\ UNCHANGED <<engine, whiteValue, blackValue, brightValue, darkValue,
                 thresholds, result, saved, progressCallback, sink,
                 outerCallback, outerSink, phaseBuffer>>

\* Most scanline calls recorded for one held buffer.
MaxHeldCalls == 2

\* sortColumn(pixels, width, height, column, mode) called on the held
\* buffer: let y = 0; let yEnd = 0.
callSortColumn(c) ==
  /\ pc = "held"
  /\ caller = "direct"
  /\ Len(heldCalls) < MaxHeldCalls
  /\ pc' = "sortColumn"
  /\ column' = c
  /\ y' = 0
  /\ yEnd' = 0
  /\ heldCalls' = Append(heldCalls, [kind |-> "column", line |-> c])
  /\ UNCHANGED <<engine, whiteValue, blackValue, brightValue, darkValue,
                 imageData, mode, thresholds, rgbPixels, row, x, xEnd, result,
                 lastScan, runPixels, saved, progressCallback, sink, caller,
                 outerCallback, outerSink, phaseBuffer>>

\* sortRow(pixels, width, height, row, mode) called on the held buffer:
\* let x = 0; let xEnd = 0.
callSortRow(r) ==
  /\ pc = "held"
  /\ caller = "direct"
  /\ Len(heldCalls) < MaxHeldCalls
  /\ pc' = "sortRow"
  /\ row' = r
  /\ x' = 0
  /\ xEnd' = 0
  /\ heldCalls' = Append(heldCalls, [kind |-> "row", line |-> r])
  /\ UNCHANGED <<engine, whiteValue, blackValue, brightValue, darkValue,
                 imageData, mode, thresholds, rgbPixels, column, y, yEnd,
                 result, lastScan, runPixels, saved, progressCallback, sink,
                 caller, outerCallback, outerSink, phaseBuffer>>

\* Mode arguments on either side of the cases 0, 1, 2, 3.
UnmatchedModes == {-1, 4}

\* sortImage of either file, or a scanline method on a held buffer, with a
\* mode that no case matches.
CallUnmatched(images) ==
  \/ /\ pc = "idle"
     /\ engine = "exported"
     /\ \E img \in images, m \in UnmatchedModes : sortImage(img, m, FALSE)
  \/ /\ pc = "idle"
     /\ engine = "processor"
     /\ caller = "none"
     /\ \E img \in images, m \in UnmatchedModes :
          sortImageWithThresholds(img, m, DefaultThresholds, TRUE)
     /\ UNCHANGED processVars
  \/ /\ pc = "idle"
     /\ \E img \in images, m \in UnmatchedModes : holdBuffer(img, m)
  \/ \E c \in 0 .. imageData.width - 1 : callSortColumn(c)
  \/ \E r \in 0 .. imageData.height - 1 : callSortRow(r)

NextUnmatched == CallUnmatched(LiveImages) \/ Steps

SpecUnmatched == InitEither /\ [][NextUnmatched]_vars

\* The mode of the call in progress is outside 0..3.
Unmatched == pc # "idle" /\ mode \notin Modes

\* C21: with a mode outside 0..3 a pass of sortColumn on a buffer of height
\* >= 2 leaves yEnd at 0 and stays in the loop, a pass of sortRow on a buffer
\* of width >= 2 leaves xEnd at 0 and stays in the loop, and sortImage on an
\* image of width >= 2 and height >= 2 never leaves the sortColumn call of
\* column 0, so it neither returns nor throws.
C21_UnmatchedModeNeverExits ==
  /\ [][/\ (Unmatched /\ pc = "sortColumn" /\ Height >= 2) =>
             (pc' = "sortColumn" /\ yEnd = 0 /\ yEnd' = yEnd
              /\ rgbPixels' = rgbPixels)
        /\ (Unmatched /\ pc = "sortRow" /\ Width >= 2) =>
             (pc' = "sortRow" /\ xEnd = 0 /\ xEnd' = xEnd
              /\ rgbPixels' = rgbPixels)]_vars
  /\ [](Unmatched /\ caller = "none" /\ Width >= 2 /\ Height >= 2 =>
          pc \in {"columns", "sortColumn"} /\ column = 0)

\* sortImage with mode 4 on a 2 x 2 image, after a pass of the loop of
\* sortColumn that began at y = 1 with yEnd = 0: the loop is going round.
C21_Witness ==
  /\ Unmatched
  /\ caller = "none"
  /\ Width >= 2
  /\ Height >= 2
  /\ pc = "sortColumn"
  /\ lastScan.kind = "column"
  /\ lastScan.from = 1
  /\ y = 1
  /\ yEnd = 0

---------------------------------------------------------------------------
(* The scanlines of one phase sorted by direct calls in any order: outside *)
(* code packs an image, calls sortRow (or sortColumn) once for each of the *)
(* scanlines the phase sorts, and does the same again in another order.    *)

\* The lines already called on the held buffer.
HeldLines == {heldCalls[i].line : i \in 1 .. Len(heldCalls)}

\* The calls made so far are of the given kind, and line is a new one; once
\* an order has been kept, only its lines are called.
MayCall(kind, line) ==
  /\ \A i \in 1 .. Len(heldCalls) : heldCalls[i].kind = kind
  /\ line \notin HeldLines
  /\ saved.set =>
       [kind |-> kind, line |-> line]
         \in {saved.calls[i] : i \in 1 .. Len(saved.calls)}

\* The calls were made in the order of the loops of sortImage.
InLoopOrder(calls) ==
  \A i \in 1 .. Len(calls) - 1 : calls[i].line < calls[i + 1].line

\* History only: keep the buffer that MaxHeldCalls calls made in loop order
\* have left.
RememberHeld ==
  /\ pc = "held"
  /\ ~saved.set
  /\ Len(heldCalls) = MaxHeldCalls
  /\ InLoopOrder(heldCalls)
  /\ saved' = [set |-> TRUE, imageData |-> imageData, mode |-> mode,
               thresholds |-> thresholds, bright |-> brightValue,
               result |-> result, runPixels |-> runPixels,
               calls |-> heldCalls, buffer |-> rgbPixels]
  /\ UNCHANGED <<engine, whiteValue, blackValue, brightValue, darkValue, pc,
                 imageData, mode, thresholds, rgbPixels, column, row, x, xEnd,
                 y, yEnd, result, lastScan, runPixels>>
  /\ UNCHANGED <<progressCallback, sink, phaseBuffer, heldCalls>>
  /\ UNCHANGED processVars

\* The outside code's moves: pack an image (once an order has been kept, the
\* same image under the same mode), or sort one more of the scanlines that
\* the phase sorts, rows 0 .. height - 2 or columns 0 .. width - 2.
CallHeld(images) ==
  \/ /\ pc = "idle" \/ saved.set
     /\ \E img \in (IF saved.set THEN {saved.imageData} ELSE images),
           m \in (IF saved.set THEN {saved.mode} ELSE Modes) :
          holdBuffer(img, m)
  \/ \E c \in 0 .. imageData.width - 2 :
       MayCall("column", c) /\ callSortColumn(c)
  \/ \E r \in 0 .. imageData.height - 2 :
       MayCall("row", r) /\ callSortRow(r)

NextHeld == CallHeld(CrossImages) \/ sortColumn \/ sortRow \/ RememberHeld

SpecHeld == Init /\ [][NextHeld]_vars

\* Packed white and packed black, to stand for the pixels of other scanlines.
MaskValues == {-1, -16777216}

\* The buffer with every pixel outside the 1-based indices keep set to v.
Masked(pixels, keep, v) ==
  [i \in 1 .. Len(pixels) |-> IF i \in keep THEN pixels[i] ELSE v]

\* What the coming pass of sortRow makes of a buffer: the run it detects and
\* the pixels it leaves in its row.
RowPassOutcome(pixels) ==
  LET sw == SwitchX(pixels, Width, x, xEnd, row, mode)
      n == sortingLength(sw[1], sw[2])
      after == IF sw[1] < 0
                 THEN pixels
                 ELSE SortRun(pixels, sw[1] + row * Width, 1, n)
  IN <<sw, [i \in RowOf(row) |-> after[i]]>>

\* The same for the coming pass of sortColumn.
ColumnPassOutcome(pixels) ==
  LET sw == SwitchY(pixels, Width, Height, column, y, yEnd, mode)
      n == sortingLength(sw[1], sw[2])
      after == IF sw[1] < 0
                 THEN pixels
                 ELSE SortRun(pixels, column + sw[1] * Width, Width, n)
  IN <<sw, [i \in ColumnOf(column) |-> after[i]]>>

\* Both sequences hold the same calls.
SameCalls(a, b) ==
  /\ Len(a) = Len(b)
  /\ {a[i] : i \in 1 .. Len(a)} = {b[i] : i \in 1 .. Len(b)}

\* C22: the rows 0 .. height - 2 (or the columns 0 .. width - 2) of a buffer
\* sorted by sortRow (sortColumn) calls in any order leave the buffer that
\* the loop order leaves; each pass of a call detects its run and orders its
\* scanline from the pixels of that scanline alone, whatever the other
\* scanlines hold, and changes no pixel outside it.
C22_ScanlineSortsCommute ==
  /\ (/\ saved.set
      /\ pc = "held"
      /\ imageData = saved.imageData
      /\ mode = saved.mode
      /\ SameCalls(heldCalls, saved.calls)) => rgbPixels = saved.buffer
  /\ (pc = "sortRow" /\ xEnd < Width - 1) =>
       \A v \in MaskValues :
         RowPassOutcome(Masked(rgbPixels, RowOf(row), v))
           = RowPassOutcome(rgbPixels)
  /\ (pc = "sortColumn" /\ yEnd < Height - 1) =>
       \A v \in MaskValues :
         ColumnPassOutcome(Masked(rgbPixels, ColumnOf(column), v))
           = ColumnPassOutcome(rgbPixels)
  /\ lastScan.kind # "none" =>
       \A i \in 1 .. Len(rgbPixels) :
         i - 1 \notin LineIndices(lastScan.kind, lastScan.line) =>
           rgbPixels[i] = lastScan.before[i]

\* Rows 1 and 0 sorted in that order, each reordered by its call, after the
\* loop order 0, 1 on the same image left the same buffer.
C22_Witness ==
  /\ saved.set
  /\ pc = "held"
  /\ Len(heldCalls) = MaxHeldCalls
  /\ SameCalls(heldCalls, saved.calls)
  /\ ~InLoopOrder(heldCalls)
  /\ rgbPixels = saved.buffer
  /\ LET input == PackedInput
     IN \A k \in 1 .. Len(heldCalls) :
          /\ heldCalls[k].kind = "row"
          /\ \E i \in RowOf(heldCalls[k].line) : rgbPixels[i] # input[i]

=============================================================================
